---- MODULE Spec2Model ----
(***************************************************************************)
(* mmap-cache: FileBuilder (src/src/builder.rs) serialises a sorted stream *)
(* of (key, value) pairs into an fst::Map index and a value blob; Cache    *)
(* (src/src/cache.rs) reads them back.  The fst index is modelled as the   *)
(* automaton the reader walks: a node is the key prefix that leads to it,  *)
(* its transitions are the next bytes of the stored keys in ascending      *)
(* order, and the outputs along an accepting path sum to the stored value. *)
(***************************************************************************)
EXTENDS Integers, Sequences, FiniteSets, TLC

\* ------------------------------------------------------------------ bounds
MaxKeyLen == 2          \* longest key / bound / width N
MaxKeys == 2            \* most entries committed to one index
MaxChunk == 1           \* longest chunk given to append_value_bytes
MaxValueBytes == 2      \* cap on the bytes handed to the value sink
MaxTrans == 4           \* most transitions of the node find_last_le_transition searches

Bytes == {1, 2}         \* key and bound bytes (0 is the buffer's fill byte)
ValueByteSet == {7, 9}  \* value bytes

SeqsUpTo(S, n) == UNION {[1..m -> S] : m \in 0..n}
KeyUniverse == SeqsUpTo(Bytes, MaxKeyLen)
Chunks == SeqsUpTo(ValueByteSet, MaxChunk)
Widths == 0..MaxKeyLen
\* Keys given to the builder when the values are what is followed: the empty
\* key, a key, an extension of it and a key after both.
BuilderKeys == {<<>>, <<1>>, <<1, 2>>, <<2>>}

\* ------------------------------------------------------------ byte strings
HasPrefix(k, p) == Len(k) >= Len(p) /\ SubSeq(k, 1, Len(p)) = p

\* <[u8] as Ord>::cmp: byte-wise, a proper prefix orders first.
RECURSIVE LexLess(_, _)
LexLess(a, b) ==
    IF b = <<>> THEN FALSE
    ELSE IF a = <<>> THEN TRUE
    ELSE IF Head(a) # Head(b) THEN Head(a) < Head(b)
    ELSE LexLess(Tail(a), Tail(b))

LexLe(a, b) == a = b \/ LexLess(a, b)

SetMin(S) == CHOOSE x \in S : \A y \in S : x <= y

RECURSIVE SortAsc(_)
SortAsc(S) == IF S = {} THEN <<>> ELSE <<SetMin(S)>> \o SortAsc(S \ {SetMin(S)})

\* ------------------------------------------------- the fst index (raw view)
\* raw is the key -> value function the builder inserted; a node is a prefix.
Under(raw, p) == {k \in DOMAIN raw : HasPrefix(k, p)}

\* Sum of the transition outputs on the path to node p.  Values are inserted
\* in non-decreasing order, so the builder leaves on each path the value of
\* the first key that went through it.
PathOut(raw, p) ==
    IF p = <<>> \/ Under(raw, p) = {} THEN 0
    ELSE SetMin({raw[k] : k \in Under(raw, p)})

root == <<>>

node_inputs(raw, node) ==
    SortAsc({k[Len(node) + 1] : k \in {x \in Under(raw, node) : Len(x) > Len(node)}})

node_len(raw, node) == Len(node_inputs(raw, node))

node_is_empty(raw, node) == node_len(raw, node) = 0

node_is_final(raw, node) == node \in DOMAIN raw

node_final_output(raw, node) == raw[node] - PathOut(raw, node)

\* Node::transition(i), i counted from 0.
node_transition(raw, node, i) ==
    LET inp == node_inputs(raw, node)[i + 1]
        addr == Append(node, inp)
    IN [inp |-> inp, addr |-> addr, out |-> PathOut(raw, addr) - PathOut(raw, node)]

None == [some |-> FALSE, v |-> 0]
Some(x) == [some |-> TRUE, v |-> x]

\* fst::Map::get: follow the key's bytes, add the outputs, accept on a final node.
RECURSIVE map_get_from(_, _, _, _)
map_get_from(raw, node, key, out) ==
    IF key = <<>>
    THEN IF node_is_final(raw, node) THEN Some(out + node_final_output(raw, node)) ELSE None
    ELSE LET ts == {i \in 0..(node_len(raw, node) - 1) :
                        node_transition(raw, node, i).inp = Head(key)}
         IN IF ts = {} THEN None
            ELSE LET t == node_transition(raw, node, CHOOSE i \in ts : TRUE)
                 IN map_get_from(raw, t.addr, Tail(key), out + t.out)

map_get(raw, key) == map_get_from(raw, root, key, 0)

\* fst::Map::stream: depth-first from the root, a final node before its
\* transitions, the transitions in ascending order.
RECURSIVE map_stream_from(_, _, _, _)
RECURSIVE map_stream_children(_, _, _, _, _)
map_stream_from(raw, node, key, out) ==
    (IF node_is_final(raw, node)
     THEN <<[key |-> key, offset |-> out + node_final_output(raw, node)]>>
     ELSE <<>>)
    \o map_stream_children(raw, node, key, out, 0)

map_stream_children(raw, node, key, out, i) ==
    IF i >= node_len(raw, node) THEN <<>>
    ELSE LET t == node_transition(raw, node, i)
         IN map_stream_from(raw, t.addr, Append(key, t.inp), out + t.out)
            \o map_stream_children(raw, node, key, out, i + 1)

map_stream(raw) == map_stream_from(raw, root, <<>>, 0)

\* ---------------------------------------------------------------- builder
VARIABLES
    map_builder,              \* [map, last]: the fst::MapBuilder
    value_writer,             \* bytes handed to the value sink so far
    value_cursor,
    committed_value_cursor,
    phase,                    \* "building" | "finished"
    cache,                    \* [index, value_bytes] once the files are mapped
    result,                   \* the last call and what it returned
    base,                     \* builder as the last call other than a successful append left it
    chunks,                   \* bytes appended successfully since base
    appends,                  \* how many append calls wrote them: 0, 1, 2 for several
    log,                      \* committed entries: key and the bytes appended for it
    failed,                   \* some call returned an error
    search                    \* find_last_le_transition on the root: its locals and position

vars == <<map_builder, value_writer, value_cursor, committed_value_cursor,
          phase, cache, result, base, chunks, appends, log, failed, search>>

EmptyMap == [k \in {} |-> 0]

Builder == [map_builder |-> map_builder, value_writer |-> value_writer,
            value_cursor |-> value_cursor,
            committed_value_cursor |-> committed_value_cursor]

\* FileBuilder::new
NewBuilder == [map_builder |-> [map |-> EmptyMap, last |-> <<>>],
               value_writer |-> <<>>,
               value_cursor |-> 0,
               committed_value_cursor |-> 0]

\* fst::MapBuilder::insert: keys must arrive strictly ascending.
map_builder_insert(mb, key, val) ==
    IF mb.last # <<>> /\ ~LexLess(mb.last[1], key)
    THEN [ret |-> "ErrFst", mb |-> mb]
    ELSE [ret |-> "Ok",
          mb |-> [map |-> [k \in DOMAIN mb.map \cup {key} |->
                              IF k = key THEN val ELSE mb.map[k]],
                  last |-> <<key>>]]

\* Variant: the cursor restarts from the committed cursor at every append.
append_value_bytes_restart(b, value, written) ==
    IF written < Len(value)
    THEN [ret |-> "ErrIO",
          b |-> [b EXCEPT !.value_writer = @ \o SubSeq(value, 1, written)]]
    ELSE [ret |-> "Ok",
          b |-> [b EXCEPT !.value_writer = @ \o value,
                          !.value_cursor = b.committed_value_cursor + Len(value)]]

\* Variant: an append also promotes the committed cursor.
append_value_bytes_commits(b, value, written) ==
    IF written < Len(value)
    THEN [ret |-> "ErrIO",
          b |-> [b EXCEPT !.value_writer = @ \o SubSeq(value, 1, written)]]
    ELSE [ret |-> "Ok",
          b |-> [b EXCEPT !.value_writer = @ \o value,
                          !.value_cursor = @ + Len(value),
                          !.committed_value_cursor = b.value_cursor + Len(value)]]

\* FileBuilder::append_value_bytes.  written is how many bytes the sink took:
\* Len(value) when write_all succeeds, fewer when it fails.
append_value_bytes(b, value, written) ==
    IF written < Len(value)
    THEN [ret |-> "ErrIO",
          b |-> [b EXCEPT !.value_writer = @ \o SubSeq(value, 1, written)]]
    ELSE [ret |-> "Ok",
          b |-> [b EXCEPT !.value_writer = @ \o value,
                          !.value_cursor = @ + Len(value)]]

\* Variant: the index's refusal is dropped and the entry counted as committed.
commit_entry_swallows_error(b, key) ==
    LET r == map_builder_insert(b.map_builder, key, b.committed_value_cursor)
    IN [ret |-> "Ok",
        b |-> [b EXCEPT !.map_builder = r.mb,
                        !.committed_value_cursor = b.value_cursor]]

\* Variant: the key is mapped to the end of its value, not to its start.
commit_entry_end_offset(b, key) ==
    LET r == map_builder_insert(b.map_builder, key, b.value_cursor)
    IN IF r.ret # "Ok" THEN [ret |-> r.ret, b |-> b]
       ELSE [ret |-> "Ok",
             b |-> [b EXCEPT !.map_builder = r.mb,
                             !.committed_value_cursor = b.value_cursor]]

\* FileBuilder::commit_entry
commit_entry(b, key) ==
    LET r == map_builder_insert(b.map_builder, key, b.committed_value_cursor)
    IN IF r.ret # "Ok" THEN [ret |-> r.ret, b |-> b]
       ELSE [ret |-> "Ok",
             b |-> [b EXCEPT !.map_builder = r.mb,
                             !.committed_value_cursor = b.value_cursor]]

\* FileBuilder::insert
insert(b, key, value, written) ==
    LET a == append_value_bytes(b, value, written)
    IN IF a.ret # "Ok" THEN a ELSE commit_entry(a.b, key)

NoBound == [kind |-> "Unbounded", key |-> <<>>]

Result(op, key, ret) ==
    [op |-> op, key |-> key, n |-> 0, ret |-> ret, out_key |-> <<>>, offset |-> 0,
     items |-> <<>>, start |-> NoBound, end |-> NoBound]

SetBuilder(b) ==
    /\ map_builder' = b.map_builder
    /\ value_writer' = b.value_writer
    /\ value_cursor' = b.value_cursor
    /\ committed_value_cursor' = b.committed_value_cursor

\* No call of find_last_le_transition is under way.
NoSearch == [pc |-> "idle", upper_bound |-> 0, lower |-> 0, upper |-> 0, passes |-> 0,
             ret |-> None]

Init ==
    /\ map_builder = NewBuilder.map_builder
    /\ value_writer = NewBuilder.value_writer
    /\ value_cursor = NewBuilder.value_cursor
    /\ committed_value_cursor = NewBuilder.committed_value_cursor
    /\ phase = "building"
    /\ cache = [index |-> EmptyMap, value_bytes |-> <<>>]
    /\ result = Result("new", <<>>, "Ok")
    /\ base = NewBuilder
    /\ chunks = <<>>
    /\ appends = 0
    /\ log = <<>>
    /\ failed = FALSE
    /\ search = NoSearch

CanGrow(value) == Len(value_writer) + Len(value) <= MaxValueBytes

\* builder.append_value_bytes(value)
AppendValueBytes(value, written) ==
    /\ phase = "building"
    /\ CanGrow(value)
    /\ LET r == append_value_bytes(Builder, value, written)
       IN /\ SetBuilder(r.b)
          /\ result' = Result("append_value_bytes", value, r.ret)
          /\ IF r.ret = "Ok"
             THEN /\ chunks' = chunks \o value
                  /\ appends' = IF appends = 0 THEN 1 ELSE 2
                  /\ UNCHANGED <<base, failed>>
             ELSE /\ chunks' = <<>>
                  /\ appends' = 0
                  /\ base' = r.b
                  /\ failed' = TRUE
    /\ UNCHANGED <<phase, cache, log, search>>

LogEntry(key, value) == [key |-> key, value |-> value]

\* builder.commit_entry(key)
CommitEntry(key) ==
    /\ phase = "building"
    /\ Cardinality(DOMAIN map_builder.map) < MaxKeys
    /\ LET r == commit_entry(Builder, key)
       IN /\ SetBuilder(r.b)
          /\ result' = [Result("commit_entry", key, r.ret) EXCEPT !.n = appends,
                                                                  !.items = chunks]
          /\ base' = r.b
          /\ chunks' = <<>>
          /\ appends' = 0
          /\ failed' = (failed \/ r.ret # "Ok")
          /\ log' = IF r.ret = "Ok" THEN Append(log, LogEntry(key, chunks)) ELSE log
    /\ UNCHANGED <<phase, cache, search>>

\* builder.insert(key, value)
Insert(key, value, written) ==
    /\ phase = "building"
    /\ CanGrow(value)
    /\ Cardinality(DOMAIN map_builder.map) < MaxKeys
    /\ LET r == insert(Builder, key, value, written)
       IN /\ SetBuilder(r.b)
          /\ result' = [Result("insert", key, r.ret) EXCEPT !.items = value]
          /\ base' = r.b
          /\ chunks' = <<>>
          /\ appends' = 0
          /\ failed' = (failed \/ r.ret # "Ok")
          /\ log' = IF r.ret = "Ok" THEN Append(log, LogEntry(key, chunks \o value)) ELSE log
    /\ UNCHANGED <<phase, cache, search>>

\* builder.finish(), then MmapCache::map_paths on the two files
Finish ==
    /\ phase = "building"
    /\ phase' = "finished"
    /\ cache' = [index |-> map_builder.map, value_bytes |-> value_writer]
    /\ result' = Result("finish", <<>>, "Ok")
    /\ UNCHANGED <<map_builder, value_writer, value_cursor, committed_value_cursor,
                   base, chunks, appends, log, failed, search>>

\* ----------------------------------------------------------------- reader
\* Ordering of a.cmp(b) on bytes.
Cmp(a, b) == IF a < b THEN "Less" ELSE IF a = b THEN "Equal" ELSE "Greater"

\* Cache::get_value_offset
get_value_offset(c, key) == map_get(c.index, key)

\* A call's outcome: ret is "None", "Some" or "Panic"; key is the [u8; N] buffer;
\* frames lists the frames of last_le_recursive the call ran, in entry order.
RNone(key) == [ret |-> "None", offset |-> 0, key |-> key, frames |-> <<>>]
RSome(offset, key) == [ret |-> "Some", offset |-> offset, key |-> key, frames |-> <<>>]
RPanic(key) == [ret |-> "Panic", offset |-> 0, key |-> key, frames |-> <<>>]

ZeroKey(N) == [i \in 1..N |-> 0]

\* Variant: a store past the end of the buffer is dropped instead of checked.
key_index_ok_unchecked(key, i) == TRUE

\* key[i] = v on a [u8; N]: the index is checked, i >= N panics.
key_index_ok(key, i) == i < Len(key)
key_set(key, i, v) == [j \in 1..Len(key) |-> IF j = i + 1 THEN v ELSE key[j]]

\* Cache::first: the head of the stream, copied with copy_from_slice, which
\* panics unless the two lengths are equal.
first(c, N) ==
    LET s == map_stream(c.index)
    IN IF s = <<>> THEN RNone(ZeroKey(N))
       ELSE IF Len(s[1].key) # N THEN RPanic(ZeroKey(N))
       ELSE RSome(s[1].offset, s[1].key)

\* The loop of Cache::last.  n.len() - 1 on a node without transitions
\* underflows (a panic with overflow checks; without them the index is
\* usize::MAX, outside what Node::transition accepts), and key[i] with
\* i >= N is out of bounds.
\* Variant: the walk takes the first transition, not the last.
last_transition_first(raw, n) == node_transition(raw, n, 0)

\* n.transition(n.len() - 1) in Cache::last
last_transition(raw, n) == node_transition(raw, n, node_len(raw, n) - 1)

RECURSIVE last_loop(_, _, _, _, _)
last_loop(raw, n, i, offset, key) ==
    IF ~(~node_is_final(raw, n) \/ ~node_is_empty(raw, n))
    THEN IF i = Len(key) THEN RSome(offset, key) ELSE RNone(key)
    ELSE IF node_len(raw, n) = 0 THEN RPanic(key)
    ELSE LET t == last_transition(raw, n)
         IN IF ~key_index_ok(key, i) THEN RPanic(key)
            ELSE last_loop(raw, t.addr, i + 1, offset + t.out, key_set(key, i, t.inp))

\* Cache::last
last(c, N) == last_loop(c.index, root, 0, 0, ZeroKey(N))

\* Variant: the look at the next transition also stops on an equal byte.
find_last_le_pass_stops_at_equal(raw, node, upper_bound, lower, upper) ==
    LET mid == (lower + upper) \div 2
        t == node_transition(raw, node, mid)
        found == [done |-> TRUE, ret |-> Some([t_i |-> mid, t |-> t]),
                  lower |-> lower, upper |-> upper]
    IN IF t.inp <= upper_bound
       THEN IF mid = node_len(raw, node) - 1 THEN found
            ELSE IF node_transition(raw, node, mid + 1).inp >= upper_bound THEN found
            ELSE [done |-> FALSE, ret |-> None, lower |-> mid + 1, upper |-> upper]
       ELSE [done |-> FALSE, ret |-> None, lower |-> lower, upper |-> mid]

\* One pass of the while loop of find_last_le_transition, entered with
\* lower # upper: it returns (done) or goes round with new lower and upper.
find_last_le_pass(raw, node, upper_bound, lower, upper) ==
    LET mid == (lower + upper) \div 2
        t == node_transition(raw, node, mid)
        found == [done |-> TRUE, ret |-> Some([t_i |-> mid, t |-> t]),
                  lower |-> lower, upper |-> upper]
    IN IF t.inp <= upper_bound
       THEN IF mid = node_len(raw, node) - 1 THEN found
            ELSE IF node_transition(raw, node, mid + 1).inp > upper_bound THEN found
            ELSE [done |-> FALSE, ret |-> None, lower |-> mid + 1, upper |-> upper]
       ELSE [done |-> FALSE, ret |-> None, lower |-> lower, upper |-> mid]

\* find_last_le_transition: the binary search, from (lower, upper).
RECURSIVE find_last_le_loop(_, _, _, _, _)
find_last_le_loop(raw, node, upper_bound, lower, upper) ==
    IF lower = upper THEN None
    ELSE LET pass == find_last_le_pass(raw, node, upper_bound, lower, upper)
         IN IF pass.done THEN pass.ret
            ELSE find_last_le_loop(raw, node, upper_bound, pass.lower, pass.upper)

find_last_le_transition(raw, node, upper_bound) ==
    find_last_le_loop(raw, node, upper_bound, 0, node_len(raw, node))

\* LastLeSearch::initial
initial == [parent_ordering |-> "Equal", byte_i |-> 0, offset_sum |-> 0, node |-> root]

\* Variant: the callee inherits its caller's ordering.
next_with_ordering_of_parent(state, t, ordering) ==
    [parent_ordering |-> state.parent_ordering,
     byte_i |-> state.byte_i + 1,
     node |-> t.addr,
     offset_sum |-> state.offset_sum + t.out]

\* LastLeSearch::next_with_ordering
next_with_ordering(state, t, ordering) ==
    [parent_ordering |-> ordering,
     byte_i |-> state.byte_i + 1,
     node |-> t.addr,
     offset_sum |-> state.offset_sum + t.out]

\* LastLeSearch::next
next(state, upper_bound, t) ==
    next_with_ordering(state, t, Cmp(t.inp, upper_bound[state.byte_i + 1]))

\* Variant: a frame at ordering Less descends by the least transition.
less_transition_first(raw, node) == node_transition(raw, node, 0)

\* The transition a frame at ordering Less descends by: the greatest one.
less_transition(raw, node) == node_transition(raw, node, node_len(raw, node) - 1)

\* The transition the backtrack retries with: the one just before t_i.
backtrack_transition(raw, node, t_i) == node_transition(raw, node, t_i - 1)

\* A recursive call as its caller made it: the transition taken and the
\* ordering the callee is entered with.
Call(t_i, next_state) == [t_i |-> t_i, parent_ordering |-> next_state.parent_ordering]

\* Cache::last_le_recursive.  key[state.byte_i] = t.inp is out of bounds, and
\* panics, when byte_i >= N; a panic unwinds through every frame.  The outcome
\* carries this frame (how it was entered, the calls it made, what it
\* returned) followed by the frames of its callees.
RECURSIVE last_le_recursive(_, _, _, _)
last_le_recursive(raw, upper_bound, state, key) ==
    LET frame(r, calls, below) ==
            [r EXCEPT !.frames = <<[parent_ordering |-> state.parent_ordering,
                                    byte_i |-> state.byte_i,
                                    calls |-> calls,
                                    ret |-> r.ret]>> \o below]
    IN
    IF state.parent_ordering = "Greater" THEN frame(RNone(key), <<>>, <<>>)
    ELSE
    LET node == state.node
        or_final(k) == IF node_is_final(raw, node) THEN RSome(state.offset_sum, k)
                       ELSE RNone(k)
        or_else(r) == IF r.ret = "None" THEN or_final(r.key) ELSE r
    IN IF node_is_empty(raw, node) THEN frame(or_final(key), <<>>, <<>>)
       ELSE IF state.parent_ordering = "Equal"
       THEN IF state.byte_i < Len(upper_bound)
            THEN LET f == find_last_le_transition(raw, node, upper_bound[state.byte_i + 1])
                 IN IF ~f.some THEN frame(or_final(key), <<>>, <<>>)
                    ELSE IF ~key_index_ok(key, state.byte_i)
                    THEN frame(RPanic(key), <<>>, <<>>)
                    ELSE
                    LET s1 == next(state, upper_bound, f.v.t)
                        c1 == Call(f.v.t_i, s1)
                        r1 == last_le_recursive(raw, upper_bound, s1,
                                  key_set(key, state.byte_i, f.v.t.inp))
                    IN IF r1.ret # "None" THEN frame(r1, <<c1>>, r1.frames)
                       ELSE IF f.v.t_i > 0
                       THEN LET t == backtrack_transition(raw, node, f.v.t_i)
                                s2 == next_with_ordering(state, t, "Less")
                                r2 == last_le_recursive(raw, upper_bound, s2,
                                          key_set(r1.key, state.byte_i, t.inp))
                            IN frame(or_else(r2), <<c1, Call(f.v.t_i - 1, s2)>>,
                                     r1.frames \o r2.frames)
                       ELSE frame(or_final(r1.key), <<c1>>, r1.frames)
            ELSE frame(or_final(key), <<>>, <<>>)
       ELSE LET t == less_transition(raw, node)
                s1 == next_with_ordering(state, t, "Less")
            IN IF ~key_index_ok(key, state.byte_i) THEN frame(RPanic(key), <<>>, <<>>)
               ELSE LET r == last_le_recursive(raw, upper_bound, s1,
                                 key_set(key, state.byte_i, t.inp))
                    IN frame(or_else(r), <<Call(node_len(raw, node) - 1, s1)>>, r.frames)

last_le(c, N, upper_bound) ==
    last_le_recursive(c.index, upper_bound, initial, ZeroKey(N))

\* fst::map::StreamBuilder: gt / ge set the lower end, lt / le the upper end.
stream_builder == [min |-> NoBound, max |-> NoBound]
gt(b, key) == [b EXCEPT !.min = [kind |-> "Excluded", key |-> key]]
ge(b, key) == [b EXCEPT !.min = [kind |-> "Included", key |-> key]]
lt(b, key) == [b EXCEPT !.max = [kind |-> "Excluded", key |-> key]]
le(b, key) == [b EXCEPT !.max = [kind |-> "Included", key |-> key]]

AboveMin(min, k) ==
    CASE min.kind = "Unbounded" -> TRUE
      [] min.kind = "Included" -> LexLe(min.key, k)
      [] min.kind = "Excluded" -> LexLess(min.key, k)

BelowMax(max, k) ==
    CASE max.kind = "Unbounded" -> TRUE
      [] max.kind = "Included" -> LexLe(k, max.key)
      [] max.kind = "Excluded" -> LexLess(k, max.key)

\* StreamBuilder::into_stream, run to its end.
into_stream(raw, b) ==
    SelectSeq(map_stream(raw), LAMBDA e : AboveMin(b.min, e.key) /\ BelowMax(b.max, e.key))

\* Variant: an excluded start is passed on as an included one.
range_start_closed(builder, start) ==
    CASE start.kind = "Unbounded" -> builder
      [] start.kind = "Excluded" -> ge(builder, start.key)
      [] start.kind = "Included" -> ge(builder, start.key)

\* The start_bound match of Cache::range.
range_start(builder, start) ==
    CASE start.kind = "Unbounded" -> builder
      [] start.kind = "Excluded" -> gt(builder, start.key)
      [] start.kind = "Included" -> ge(builder, start.key)

\* The end_bound match of Cache::range.
range_end(builder, end) ==
    CASE end.kind = "Unbounded" -> builder
      [] end.kind = "Excluded" -> lt(builder, end.key)
      [] end.kind = "Included" -> le(builder, end.key)

\* Cache::range
range(c, start, end) == range_end(range_start(stream_builder, start), end)

\* Only Some carries the buffer and the offset out of the call.
ReaderResult(op, N, key, r) ==
    [Result(op, key, r.ret) EXCEPT !.n = N,
                                   !.items = r.frames,
                                   !.out_key = IF r.ret = "Some" THEN r.key ELSE <<>>,
                                   !.offset = IF r.ret = "Some" THEN r.offset ELSE 0]

\* The cache is immutable and a reader call returns a function of the cache and
\* its arguments, so a behaviour makes one reader call on the cache it mapped.
Mapped == phase = "finished" /\ result.op = "finish"

ReaderUnchanged ==
    UNCHANGED <<map_builder, value_writer, value_cursor, committed_value_cursor,
                phase, cache, base, chunks, appends, log, failed, search>>

\* cache.get_value_offset(key)
GetValueOffset(key) ==
    /\ Mapped
    /\ LET r == get_value_offset(cache, key)
       IN result' = [Result("get_value_offset", key, IF r.some THEN "Some" ELSE "None")
                        EXCEPT !.offset = r.v]
    /\ ReaderUnchanged

\* cache.first::<N>()
First(N) ==
    /\ Mapped
    /\ result' = ReaderResult("first", N, <<>>, first(cache, N))
    /\ ReaderUnchanged

\* cache.last::<N>()
Last(N) ==
    /\ Mapped
    /\ result' = ReaderResult("last", N, <<>>, last(cache, N))
    /\ ReaderUnchanged

\* cache.last_le::<N>(upper_bound)
LastLe(N, upper_bound) ==
    /\ Mapped
    /\ result' = ReaderResult("last_le", N, upper_bound, last_le(cache, N, upper_bound))
    /\ ReaderUnchanged

\* cache.range(start..end).into_stream(), collected
Range(start, end) ==
    /\ Mapped
    /\ result' = [Result("range", <<>>, "Ok") EXCEPT
                     !.items = into_stream(cache.index, range(cache, start, end)),
                     !.start = start, !.end = end]
    /\ ReaderUnchanged

Written(value) == {Len(value)} \cup 0..(Len(value) - 1)

Next ==
    \/ \E value \in Chunks : \E written \in Written(value) : AppendValueBytes(value, written)
    \/ \E key \in BuilderKeys : CommitEntry(key)
    \/ \E key \in BuilderKeys : \E value \in Chunks : \E written \in Written(value) :
          Insert(key, value, written)
    \/ Finish
    \/ \E key \in BuilderKeys : GetValueOffset(key)

Spec == Init /\ [][Next]_vars

\* The reader's calls, over every index a successful build produces from keys
\* of KeyUniverse; the values are short, their offsets are what the reader sees.
ReaderValues == SeqsUpTo({7}, 1)
RangeKeys == SeqsUpTo(Bytes, 1)
RangeBounds == {NoBound} \cup [kind : {"Included", "Excluded"}, key : RangeKeys]

\* The keys a caller that keeps the builder's order contract may give next.
AscendingKeys == {k \in KeyUniverse : map_builder.last = <<>> \/ LexLess(map_builder.last[1], k)}

NextReader ==
    \/ \E key \in AscendingKeys : \E value \in ReaderValues : Insert(key, value, Len(value))
    \/ Finish
    \/ \E N \in Widths : First(N)
    \/ \E N \in Widths : Last(N)
    \/ \E N \in Widths : \E upper_bound \in KeyUniverse : LastLe(N, upper_bound)
    \/ \E start \in RangeBounds : \E end \in RangeBounds : Range(start, end)

ReaderSpec == Init /\ [][NextReader]_vars

\* find_last_le_transition(root, upper_bound), one pass of its loop at a time.
FindStart(upper_bound) ==
    /\ Mapped
    /\ search.pc = "idle"
    /\ search' = [NoSearch EXCEPT !.pc = "loop", !.upper_bound = upper_bound,
                                  !.upper = node_len(cache.index, root)]
    /\ UNCHANGED <<map_builder, value_writer, value_cursor, committed_value_cursor,
                   phase, cache, result, base, chunks, appends, log, failed>>

FindPass ==
    /\ search.pc = "loop"
    /\ IF search.lower = search.upper
       THEN search' = [search EXCEPT !.pc = "done", !.ret = None]
       ELSE LET pass == find_last_le_pass(cache.index, root, search.upper_bound,
                                          search.lower, search.upper)
            IN search' = [search EXCEPT !.pc = IF pass.done THEN "done" ELSE "loop",
                                        !.ret = pass.ret,
                                        !.lower = pass.lower,
                                        !.upper = pass.upper,
                                        !.passes = @ + 1]
    /\ UNCHANGED <<map_builder, value_writer, value_cursor, committed_value_cursor,
                   phase, cache, result, base, chunks, appends, log, failed>>

\* The stores whose root has the transitions of a set of bytes: one-byte keys,
\* each with a one-byte value, committed in order and mapped.
TransBytes == 1..MaxTrans
SearchBounds == 0..(MaxTrans + 1)

RECURSIVE InsertAll(_, _)
InsertAll(b, inputs) ==
    IF inputs = <<>> THEN b
    ELSE InsertAll(insert(b, <<Head(inputs)>>, <<7>>, 1).b, Tail(inputs))

SearchInit ==
    \E S \in SUBSET TransBytes :
       LET inputs == SortAsc(S)
           b == InsertAll(NewBuilder, inputs)
       IN /\ map_builder = b.map_builder
          /\ value_writer = b.value_writer
          /\ value_cursor = b.value_cursor
          /\ committed_value_cursor = b.committed_value_cursor
          /\ phase = "finished"
          /\ cache = [index |-> b.map_builder.map, value_bytes |-> b.value_writer]
          /\ result = Result("finish", <<>>, "Ok")
          /\ base = b
          /\ chunks = <<>>
          /\ appends = 0
          /\ log = [i \in 1..Len(inputs) |-> LogEntry(<<inputs[i]>>, <<7>>)]
          /\ failed = FALSE
          /\ search = NoSearch

NextSearch ==
    \/ \E upper_bound \in SearchBounds : FindStart(upper_bound)
    \/ FindPass

SearchSpec == SearchInit /\ [][NextSearch]_vars

\* ------------------------------------------------------------- properties
StoredKeys == DOMAIN cache.index
KeysLe(U) == {k \in StoredKeys : LexLe(k, U)}
LexMax(S) == CHOOSE k \in S : \A j \in S : LexLe(j, k)
LexMin(S) == CHOOSE k \in S : \A j \in S : LexLe(k, j)
IsLastLe == result.op = "last_le"
Found == LexMax(KeysLe(result.key))

\* C1: a last_le<N>(U) that returns without aborting returns none exactly when
\* no stored key is <= U; otherwise, with K the greatest stored key <= U, the
\* returned offset is get_value_offset(K) and the first |K| bytes of the
\* returned buffer are K.
C1_LastLeGreatestKeyLe ==
    (IsLastLe /\ result.ret # "Panic") =>
        /\ (result.ret = "None") <=> (KeysLe(result.key) = {})
        /\ result.ret = "Some" =>
              /\ get_value_offset(cache, Found) = Some(result.offset)
              /\ Len(Found) <= Len(result.out_key)
              /\ SubSeq(result.out_key, 1, Len(Found)) = Found

\* A last_le that had to leave the bound's own branch: the key found differs
\* from the bound in its first byte and its value does not start the blob.
C1_Witness ==
    /\ IsLastLe /\ result.ret = "Some"
    /\ result.key # <<>> /\ Found # <<>>
    /\ Found[1] < result.key[1]
    /\ result.offset > 0
    /\ SubSeq(result.out_key, 1, Len(Found)) = Found

RECURSIVE TotalLen(_, _)
TotalLen(entries, n) == IF n = 0 THEN 0 ELSE TotalLen(entries, n - 1) + Len(entries[n].value)

\* C2: after successful calls and finish, every committed key is mapped to the
\* number of bytes appended for the earlier entries, and the value blob holds
\* its value (the chunks appended since the previous commit) from that offset.
C2_OffsetValueConsistency ==
    (phase = "finished" /\ ~failed) =>
        \A i \in 1..Len(log) :
            LET o == get_value_offset(cache, log[i].key)
            IN /\ o = Some(TotalLen(log, i - 1))
               /\ SubSeq(cache.value_bytes, o.v + 1, o.v + Len(log[i].value)) = log[i].value

\* A finished build of two entries, the second looked up behind a non-empty first
\* value, with an empty value among them or not.
C2_Witness ==
    /\ phase = "finished" /\ ~failed /\ Len(log) >= 2
    /\ result.op = "get_value_offset" /\ result.key = log[2].key
    /\ result.ret = "Some" /\ result.offset > 0
    /\ Len(log[2].value) > 0

\* C3: first() returns the smallest stored (key, offset) and last() the greatest
\* when N is that key's length; on an empty store both return none.
C3_FirstLastExtremes ==
    /\ (result.op = "first" /\ StoredKeys = {}) => result.ret = "None"
    /\ (result.op = "last" /\ StoredKeys = {}) => result.ret = "None"
    /\ (result.op = "first" /\ StoredKeys # {} /\ result.n = Len(LexMin(StoredKeys))) =>
          /\ result.ret = "Some" /\ result.out_key = LexMin(StoredKeys)
          /\ Some(result.offset) = get_value_offset(cache, LexMin(StoredKeys))
    /\ (result.op = "last" /\ StoredKeys # {} /\ result.n = Len(LexMax(StoredKeys))) =>
          /\ result.ret = "Some" /\ result.out_key = LexMax(StoredKeys)
          /\ Some(result.offset) = get_value_offset(cache, LexMax(StoredKeys))

IsCommit(r) == r.op = "commit_entry" \/ (r.op = "insert" /\ r.ret # "ErrIO")

\* C4: a commit_entry(key) or insert(key, value) whose key is not strictly
\* greater than the previously committed key returns Error::Fst and leaves the
\* index as it was.
C4_OutOfOrderKeyRejected ==
    [][(/\ IsCommit(result')
        /\ log # <<>>
        /\ LexLe(result'.key, log[Len(log)].key))
       => (result'.ret = "ErrFst" /\ map_builder' = map_builder /\ log' = log)]_vars

\* A rejected key below the last committed one, and the index without it.
C4_Witness ==
    /\ IsCommit(result) /\ result.ret = "ErrFst"
    /\ log # <<>> /\ LexLess(result.key, log[Len(log)].key)
    /\ result.key \notin DOMAIN map_builder.map

\* C5 as stated: a last_le<N>(U) that finds a key of a length other than N,
\* shorter or longer, panics.
C5_PanicsUnlessWidthMatches ==
    (IsLastLe /\ KeysLe(result.key) # {} /\ Len(Found) # result.n) => result.ret = "Panic"

\* C5, amended: a found key longer than N makes last_le<N>(U) panic; a found key
\* shorter than N is returned in the first bytes of the buffer when the call
\* returns.
C5_PanicsWhenKeyLonger ==
    /\ (IsLastLe /\ KeysLe(result.key) # {} /\ Len(Found) > result.n) => result.ret = "Panic"
    /\ (IsLastLe /\ KeysLe(result.key) # {} /\ Len(Found) < result.n /\ result.ret # "Panic") =>
          /\ result.ret = "Some"
          /\ Len(result.out_key) = result.n
          /\ SubSeq(result.out_key, 1, Len(Found)) = Found

\* The key found is longer than the buffer and the call panicked.
C5_Witness ==
    /\ IsLastLe /\ KeysLe(result.key) # {}
    /\ Len(Found) > result.n /\ result.n > 0
    /\ result.ret = "Panic"

\* C6 as stated: last<N>() returns the greatest key and its offset when that
\* key's length is N and none for every other length.
C6_LastNoneUnlessWidthMatches ==
    (result.op = "last" /\ StoredKeys # {}) =>
        IF Len(LexMax(StoredKeys)) = result.n
        THEN /\ result.ret = "Some" /\ result.out_key = LexMax(StoredKeys)
             /\ Some(result.offset) = get_value_offset(cache, LexMax(StoredKeys))
        ELSE result.ret = "None"

\* C6, amended: last<N>() follows the greatest transitions to a final node
\* without transitions; it returns that key and its offset when the key's
\* length is N, none when the key is shorter than N, and panics when the key is
\* longer than N.
C6_LastByWidth ==
    (result.op = "last" /\ StoredKeys # {}) =>
        LET K == LexMax(StoredKeys)
        IN /\ Len(K) = result.n =>
                 /\ result.ret = "Some" /\ result.out_key = K
                 /\ Some(result.offset) = get_value_offset(cache, K)
           /\ Len(K) < result.n => result.ret = "None"
           /\ Len(K) > result.n => result.ret = "Panic"

\* last<N>() on a store whose greatest key is longer than N, and one step off
\* the first transition of the root.
C6_Witness ==
    /\ result.op = "last" /\ StoredKeys # {}
    /\ Len(LexMax(StoredKeys)) > result.n
    /\ result.ret = "Panic"
    /\ \E k \in StoredKeys : k # <<>> /\ k[1] < LexMax(StoredKeys)[1]

\* C7: a commit_entry(key) after any number of append_value_bytes calls leaves
\* the builder (index, value blob, both cursors) and returns as one
\* insert(key, v) does from the state before the appends, v being the chunks
\* concatenated.
C7_AppendsThenCommitIsInsert ==
    [][result'.op = "commit_entry" =>
          LET ins == insert(base, result'.key, chunks, Len(chunks))
          IN /\ ins.b = Builder'
             /\ ins.ret = result'.ret]_vars

\* A key committed after several appends of at least two bytes in all.
C7_Witness ==
    /\ result.op = "commit_entry" /\ result.ret = "Ok"
    /\ result.n = 2 /\ Len(result.items) >= 2
    /\ Len(log) >= 2

InRange(start, end, k) ==
    /\ start.kind = "Included" => (k = start.key \/ LexLess(start.key, k))
    /\ start.kind = "Excluded" => LexLess(start.key, k)
    /\ end.kind = "Included" => (k = end.key \/ LexLess(k, end.key))
    /\ end.kind = "Excluded" => LexLess(k, end.key)

\* C8: range(bounds) yields exactly the stored (key, offset) pairs whose keys
\* satisfy both endpoints, each Included, Excluded or Unbounded, in ascending
\* order; with both endpoints Unbounded, the inserted keys in insertion order.
C8_RangeYieldsKeysWithinBounds ==
    result.op = "range" =>
        LET items == result.items
        IN /\ {items[i].key : i \in 1..Len(items)} =
                 {k \in StoredKeys : InRange(result.start, result.end, k)}
           /\ \A i \in 1..Len(items) :
                 /\ get_value_offset(cache, items[i].key) = Some(items[i].offset)
                 /\ \A j \in 1..Len(items) : i < j => LexLess(items[i].key, items[j].key)
           /\ (result.start.kind = "Unbounded" /\ result.end.kind = "Unbounded") =>
                 [i \in 1..Len(items) |-> items[i].key] = [i \in 1..Len(log) |-> log[i].key]

\* A range whose two endpoints are stored keys, the excluded start left out and
\* the included end yielded.
C8_Witness ==
    /\ result.op = "range"
    /\ result.start.kind = "Excluded" /\ result.end.kind = "Included"
    /\ result.start.key \in StoredKeys /\ result.end.key \in StoredKeys
    /\ Len(result.items) >= 1
    /\ result.items[Len(result.items)].key = result.end.key

\* C9: when the greatest stored key <= U has length exactly N, last_le<N>(U)
\* completes without aborting, whatever longer branches the search explores.
C9_NoAbortWhenWidthMatches ==
    (IsLastLe /\ KeysLe(result.key) # {} /\ Len(Found) = result.n) => result.ret # "Panic"

\* C10: both cursors start at 0, neither ever decreases, value_cursor >=
\* committed_value_cursor throughout, and append_value_bytes changes neither
\* the committed cursor nor the index.
C10_CursorsMonotone ==
    /\ value_cursor = 0 /\ committed_value_cursor = 0
    /\ [](value_cursor >= committed_value_cursor)
    /\ [][/\ value_cursor' >= value_cursor
          /\ committed_value_cursor' >= committed_value_cursor
          /\ result'.op = "append_value_bytes" =>
                /\ committed_value_cursor' = committed_value_cursor
                /\ map_builder' = map_builder]_vars

\* Bytes appended past the committed cursor after a commit failed.
C10_Witness ==
    /\ failed /\ result.op = "append_value_bytes" /\ result.ret = "Ok"
    /\ committed_value_cursor > 0
    /\ value_cursor > committed_value_cursor

\* The indices of the root's transitions whose input byte is <= the bound.
LeIndices == {i \in 0..(node_len(cache.index, root) - 1) :
                 node_inputs(cache.index, root)[i + 1] <= search.upper_bound}
GreatestLe == CHOOSE i \in LeIndices : \A j \in LeIndices : j <= i

\* C11: on a node whose transitions ascend strictly by input byte (none
\* included) and for every byte u, find_last_le_transition terminates (every
\* pass of its loop that goes round narrows upper - lower) and returns
\* (i, t[i]) for the greatest i with t[i].inp <= u, and none exactly when every
\* input byte is > u.
C11_FindLastLeTransition ==
    /\ [](search.pc = "done" =>
            /\ search.ret.some <=> (LeIndices # {})
            /\ search.ret.some =>
                  /\ search.ret.v.t_i = GreatestLe
                  /\ search.ret.v.t = node_transition(cache.index, root, GreatestLe))
    /\ [](search.pc = "loop" =>
            /\ 0 <= search.lower /\ search.lower <= search.upper
            /\ search.upper <= node_len(cache.index, root))
    /\ [][(search.pc = "loop" /\ search'.pc = "loop") =>
            search'.upper - search'.lower < search.upper - search.lower]_vars

\* A search that went round its loop, to the right, before it returned a
\* transition other than the first, whose byte is below a bound that no
\* transition carries.
C11_Witness ==
    /\ search.pc = "done" /\ search.ret.some
    /\ search.passes >= 2
    /\ search.lower > 0
    /\ search.ret.v.t_i > 0
    /\ search.ret.v.t.inp < search.upper_bound
    /\ \A i \in 1..node_len(cache.index, root) :
          node_inputs(cache.index, root)[i] # search.upper_bound

\* What last_le_recursive does when it is entered by the i-th transition of
\* the root at ordering Greater.
EnteredGreater(i) ==
    LET t == node_transition(cache.index, root, i)
    IN last_le_recursive(cache.index, result.key,
                         next_with_ordering(initial, t, "Greater"),
                         ZeroKey(result.n))

\* C12: in every run of last_le each frame makes at most two recursive calls,
\* the second one being the retry at ordering Less with the transition just
\* before the first; a frame entered at Greater returns none and calls
\* nothing; a frame entered at Less never returns none, so a frame that
\* retried does not return none for want of a further retry.
C12_LastLeFrames ==
    result.op = "last_le" =>
        /\ \A i \in 1..Len(result.items) :
              LET f == result.items[i]
              IN /\ Len(f.calls) <= 2
                 /\ Len(f.calls) = 2 =>
                       /\ f.parent_ordering = "Equal"
                       /\ f.calls[1].parent_ordering \in {"Equal", "Less"}
                       /\ f.calls[2].parent_ordering = "Less"
                       /\ f.calls[2].t_i = f.calls[1].t_i - 1
                       /\ f.ret # "None"
                 /\ f.parent_ordering = "Greater" => f.ret = "None" /\ f.calls = <<>>
                 /\ f.parent_ordering = "Less" => f.ret # "None"
        /\ \A i \in 0..(node_len(cache.index, root) - 1) :
              /\ EnteredGreater(i).ret = "None"
              /\ Len(EnteredGreater(i).frames) = 1
              /\ EnteredGreater(i).frames[1].parent_ordering = "Greater"
              /\ EnteredGreater(i).frames[1].calls = <<>>

\* A last_le that found a key after its first frame made two calls, the
\* retry running through a frame at Less that itself descended.
C12_Witness ==
    /\ result.op = "last_le" /\ result.ret = "Some"
    /\ Len(result.items[1].calls) = 2
    /\ \E i \in 1..Len(result.items) :
          /\ result.items[i].parent_ordering = "Less"
          /\ Len(result.items[i].calls) = 1
          /\ result.items[i].ret = "Some"
    /\ node_len(cache.index, root) > 0

====
